---- MODULE Spec2Model ----
(***************************************************************************)
(* A model of torch/nn/utils/parametrizations.py: the SpectralNorm         *)
(* parametrization (constructor, _reshape_weight_to_matrix, forward,       *)
(* right_inverse) together with the tensor objects its buffers `u` and `v` *)
(* refer to.                                                               *)
(*                                                                         *)
(* Numbers.  Weight entries are integers.  The entries of `u`, `v`, of the *)
(* matrix-vector products and `sigma` are fixed-point numbers: the integer *)
(* k stands for the real k / Scale.  Division truncates toward zero.       *)
(*                                                                         *)
(* Tensors.  A weight is a record [shape, data] with `data` in row-major   *)
(* order.  A buffer is a reference (an index into `heap`) to a tensor      *)
(* object holding a vector; two modules alias a buffer when they hold the  *)
(* same reference.                                                         *)
(***************************************************************************)
EXTENDS Integers, Sequences, FiniteSets, TLC

(* fixed-point scale of the vectors and of sigma *)
Scale == 100

(* the most forward calls of one run *)
MaxCalls == 3

(* the most replications of one run *)
MaxReplications == 2

(* the most forward calls of one data-parallel run *)
MaxReplicaCalls == 2

(* the largest extent of an axis of the tensors given to the reshaper *)
MaxExtent == 3

-----------------------------------------------------------------------------
(* arithmetic *)

(* a / b rounded toward zero, b > 0 *)
TruncDiv(a, b) == IF a >= 0 THEN a \div b ELSE -((-a) \div b)

(* the largest r in lo..hi with r * r <= n, given lo * lo <= n *)
RECURSIVE SqrtBetween(_, _, _)
SqrtBetween(n, lo, hi) ==
    IF lo >= hi THEN lo
    ELSE LET mid == (lo + hi + 1) \div 2
         IN  IF mid * mid <= n THEN SqrtBetween(n, mid, hi)
                               ELSE SqrtBetween(n, lo, mid - 1)

(* floor of the square root *)
Isqrt(n) == SqrtBetween(n, 0, 46340)

RECURSIVE SumSeq(_)
SumSeq(s) == IF s = <<>> THEN 0 ELSE Head(s) + SumSeq(Tail(s))

RECURSIVE ProdSeq(_)
ProdSeq(s) == IF s = <<>> THEN 1 ELSE Head(s) * ProdSeq(Tail(s))

(* results of a division by a zero sigma *)
PosInf == 2 ^ 30
NaN == PosInf + 1

-----------------------------------------------------------------------------
(* tensors: [shape |-> <<extents>>, data |-> row-major entries] *)

Tensor(shape, data) == [shape |-> shape, data |-> data]

Rank(t) == Len(t.shape)

(* row-major offset (0-based) of the 0-based multi-index idx in shape *)
RECURSIVE Ravel(_, _)
Ravel(idx, shape) ==
    IF idx = <<>> THEN 0
    ELSE Head(idx) * ProdSeq(Tail(shape)) + Ravel(Tail(idx), Tail(shape))

(* the 0-based multi-index of row-major offset k (0-based) in shape *)
RECURSIVE Unravel(_, _)
Unravel(k, shape) ==
    IF shape = <<>> THEN <<>>
    ELSE LET rest == ProdSeq(Tail(shape))
         IN  <<k \div rest>> \o Unravel(k % rest, Tail(shape))

(* Tensor.permute: perm is a sequence of 0-based axes; axis k of the result
   is axis perm[k] of t *)
Permute(t, perm) ==
    LET r      == Rank(t)
        shape2 == [k \in 1..r |-> t.shape[perm[k] + 1]]
        src(p) == LET j   == Unravel(p - 1, shape2)
                      old == [a \in 1..r |->
                                 j[CHOOSE k \in 1..r : perm[k] + 1 = a]]
                  IN  Ravel(old, t.shape) + 1
    IN  Tensor(shape2, [p \in 1..Len(t.data) |-> t.data[src(p)]])

(* [d for d in range(rank) if d != dim] *)
RECURSIVE OtherDims(_, _, _)
OtherDims(d, rank, dim) ==
    IF d >= rank THEN <<>>
    ELSE (IF d # dim THEN <<d>> ELSE <<>>) \o OtherDims(d + 1, rank, dim)

Err(kind) == [err |-> kind]
IsErr(x) == "err" \in DOMAIN x

(* a reshaper that brings dim to the front by exchanging it with axis 0 *)
ReshapeByTranspose(weight, dim) ==
    LET perm == [k \in 1..Rank(weight) |->
                    IF k = 1 THEN dim ELSE IF k = dim + 1 THEN 0 ELSE k - 1]
    IN  IF dim # 0 /\ ~(dim > 0 /\ dim < Rank(weight))
            THEN Err("permute")
        ELSE IF Rank(weight) = 0
            THEN Err("size")
        ELSE LET weight_mat == IF dim # 0 THEN Permute(weight, perm) ELSE weight
                 height     == weight_mat.shape[1]
             IN  Tensor(<<height, Len(weight_mat.data) \div height>>,
                        weight_mat.data)


(* a reshaper that reads weight_mat.size(1), so needs a weight of rank 2 or
   more *)
ReshapeNeedsTwoAxes(weight, dim) ==
    LET perm == <<dim>> \o OtherDims(0, Rank(weight), dim)
    IN  IF dim # 0 /\ ~(dim > 0 /\ dim < Rank(weight))
            THEN Err("permute")
        ELSE IF Rank(weight) < 2
            THEN Err("size")
        ELSE LET weight_mat == IF dim # 0 THEN Permute(weight, perm) ELSE weight
                 height     == weight_mat.shape[1]
             IN  Tensor(<<height, Len(weight_mat.data) \div height>>,
                        weight_mat.data)

(* SpectralNorm._reshape_weight_to_matrix with self.dim = dim: a matrix
   [shape |-> <<height, width>>, data], or an error when permute or size(0)
   raises.  permute(dim, d0, d1, ...) raises unless its arguments are a
   permutation of the axes, that is unless 0 < dim < rank; size(0) raises on
   a tensor without axes. *)
ReshapeWeightToMatrix(weight, dim) ==
    LET perm == <<dim>> \o OtherDims(0, Rank(weight), dim)
    IN  IF dim # 0 /\ ~(dim > 0 /\ dim < Rank(weight))
            THEN Err("permute")
        ELSE IF Rank(weight) = 0
            THEN Err("size")
        ELSE LET weight_mat == IF dim # 0 THEN Permute(weight, perm) ELSE weight
                 height     == weight_mat.shape[1]
             IN  Tensor(<<height, Len(weight_mat.data) \div height>>,
                        weight_mat.data)

-----------------------------------------------------------------------------
(* vectors *)

Height(mat) == mat.shape[1]
Width(mat) == mat.shape[2]
At(mat, i, j) == mat.data[(i - 1) * Width(mat) + j]

(* the outcome of an operation that may raise: [val |-> value] or
   [err |-> kind] *)

(* torch.mv(mat, vec): raises when the width of mat is not the length of vec *)
Mv(mat, vec) ==
    IF Width(mat) # Len(vec) THEN Err("mv")
    ELSE [val |-> [i \in 1..Height(mat) |->
             SumSeq([j \in 1..Width(mat) |-> At(mat, i, j) * vec[j]])]]

(* torch.mv(mat.t(), vec) *)
MvT(mat, vec) ==
    IF Height(mat) # Len(vec) THEN Err("mv")
    ELSE [val |-> [j \in 1..Width(mat) |->
             SumSeq([i \in 1..Height(mat) |-> At(mat, i, j) * vec[i]])]]

(* torch.dot(a, b): raises when the lengths differ *)
Dot(a, b) ==
    IF Len(a) # Len(b) THEN Err("dot")
    ELSE [val |-> TruncDiv(SumSeq([i \in 1..Len(a) |-> a[i] * b[i]]), Scale)]

(* the 2-norm of x *)
Norm(x) == Isqrt(SumSeq([i \in 1..Len(x) |-> x[i] * x[i]]))

(* F.normalize(x, dim=0, eps=eps): x / max(norm(x), eps) *)
Normalize(x, eps) ==
    LET n     == Norm(x)
        denom == IF n > eps THEN n ELSE eps
    IN  [i \in 1..Len(x) |-> TruncDiv(x[i] * Scale, denom)]

(* whether Normalize(x, eps) divides by eps instead of the norm *)
Floored(x, eps) == Norm(x) <= eps

(* weight / sigma, entry by entry; a zero sigma gives inf, -inf or nan *)
FloatDiv(a, b) ==
    IF b > 0 THEN TruncDiv(a * Scale, b)
    ELSE IF b < 0 THEN -TruncDiv(a * Scale, -b)
    ELSE IF a > 0 THEN PosInf
    ELSE IF a < 0 THEN -PosInf
    ELSE NaN

-----------------------------------------------------------------------------
(* state *)

VARIABLES
    modules,    \* module name -> its attributes (a record; <<>> before it exists)
    heap,       \* the tensor objects buffers refer to: reference -> vector
    last,       \* the last operation: its arguments and what it returned or raised
    saved,      \* per training-mode forward that returned: the u and v tensors
                \* its sigma was computed from, and their values then
    warnings,   \* module name -> number of warnings.warn calls it has made
    calls,      \* forward calls so far
    replications, \* replications so far
    trained     \* module name -> "never": no training-mode forward was called
                \* on it; "rejected": only ones that raised in the reshaper;
                \* "accepted": one whose weight the reshaper accepted

vars == <<modules, heap, last, saved, warnings, calls, replications, trained>>

Canonical == "canonical"
Replicas == {"replica0", "replica1"}
ModuleNames == {Canonical} \cup Replicas

NoModule == <<>>
Exists(m) == modules[m] # NoModule
Constructed(m) == Exists(m) /\ "u" \in DOMAIN modules[m]

-----------------------------------------------------------------------------
(* the power iteration of forward, on st = [self, heap, floored, err, warned]:
   the module's attributes, the heap, whether a normalization divided by eps,
   whether an operation raised, whether warnings.warn was called *)

(* an update that stores the value in a new tensor and rebinds the attribute *)
WriteNew(st, name, val) ==
    [st EXCEPT !.heap = Append(st.heap, val),
               !.self[name] = Len(st.heap) + 1]

(* F.normalize(..., out=self.<name>); self.<name> = <that tensor>: the value
   is written into the tensor object the attribute refers to (resized to the
   value's length when the lengths differ), and the attribute keeps
   referring to it *)
WriteOut(st, name, val) ==
    [st EXCEPT !.heap[st.self[name]] = val]


(* an iteration that updates u from the current v before v from the updated u *)
PowerStepUFirst(st, weight_mat) ==
    LET eps == st.self.eps
        y   == Mv(weight_mat, st.heap[st.self.v])
    IN  IF IsErr(y) THEN [st EXCEPT !.err = TRUE]
        ELSE LET st1 == [WriteOut(st, "u", Normalize(y.val, eps))
                            EXCEPT !.floored = @ \/ Floored(y.val, eps)]
                 x   == MvT(weight_mat, st1.heap[st1.self.u])
             IN  IF IsErr(x) THEN [st1 EXCEPT !.err = TRUE]
                 ELSE [WriteOut(st1, "v", Normalize(x.val, eps))
                          EXCEPT !.floored = @ \/ Floored(x.val, eps)]

(* one iteration: v from the current u, then u from the new v *)
PowerStep(st, weight_mat) ==
    LET eps == st.self.eps
        x   == MvT(weight_mat, st.heap[st.self.u])
    IN  IF IsErr(x) THEN [st EXCEPT !.err = TRUE]
        ELSE LET st1 == [WriteOut(st, "v", Normalize(x.val, eps))
                            EXCEPT !.floored = @ \/ Floored(x.val, eps)]
                 y   == Mv(weight_mat, st1.heap[st1.self.v])
             IN  IF IsErr(y) THEN [st1 EXCEPT !.err = TRUE]
                 ELSE [WriteOut(st1, "u", Normalize(y.val, eps))
                          EXCEPT !.floored = @ \/ Floored(y.val, eps)]

(* a loop of n - 1 iterations *)
RECURSIVE PowerIterationOneShort(_, _, _)
PowerIterationOneShort(st, weight_mat, n) ==
    IF n <= 1 \/ st.err THEN st
    ELSE PowerIterationOneShort(PowerStep(st, weight_mat), weight_mat, n - 1)

(* for _ in range(n): the loop stops at the first iteration that raises *)
RECURSIVE PowerIteration(_, _, _)
PowerIteration(st, weight_mat, n) ==
    IF n <= 0 \/ st.err THEN st
    ELSE PowerIteration(PowerStep(st, weight_mat), weight_mat, n - 1)

(* self.u = self.u.clone(...); self.v = self.v.clone(...) *)
CloneBuffers(st) ==
    LET k == Len(st.heap)
    IN  [st EXCEPT !.heap = st.heap \o <<st.heap[st.self.u], st.heap[st.self.v]>>,
                   !.self.u = k + 1,
                   !.self.v = k + 2]

(* a training branch that leaves buffers_initialized alone *)
TrainingBranchNoFlag(st, weight_mat) ==
    LET st2 == PowerIteration(st, weight_mat, st.self.n_power_iterations)
    IN  IF st2.err THEN st2 ELSE CloneBuffers(st2)

(* the branch of forward taken when self.training *)
TrainingBranch(st, weight_mat) ==
    LET st1 == [st EXCEPT !.self.buffers_initialized = TRUE]
        st2 == PowerIteration(st1, weight_mat, st1.self.n_power_iterations)
    IN  IF st2.err THEN st2 ELSE CloneBuffers(st2)

(* an evaluation branch that refines u and v as well *)
EvalBranchRefines(st, weight_mat) ==
    PowerIteration([st EXCEPT !.warned = ~st.self.buffers_initialized],
                   weight_mat, st.self.n_power_iterations)

(* an else branch that warns whatever buffers_initialized is *)
EvalBranchAlwaysWarns(st, weight_mat) ==
    [st EXCEPT !.warned = TRUE]

(* the branch of forward taken when not self.training *)
EvalBranch(st, weight_mat) ==
    [st EXCEPT !.warned = ~st.self.buffers_initialized]

(* sigma taken as the norm of W v, without u *)
SigmaAsNorm(st, weight_mat) ==
    LET y == Mv(weight_mat, st.heap[st.self.v])
    IN  IF IsErr(y) THEN y ELSE [val |-> Norm(y.val)]

(* sigma = torch.dot(self.u, torch.mv(weight_mat, self.v)) *)
Sigma(st, weight_mat) ==
    LET y == Mv(weight_mat, st.heap[st.self.v])
    IN  IF IsErr(y) THEN y ELSE Dot(st.heap[st.self.u], y.val)

(* weight / sigma *)
Divide(weight, sigma) ==
    Tensor(weight.shape,
           [i \in 1..Len(weight.data) |-> FloatDiv(weight.data[i] * Scale, sigma)])

(* SpectralNorm.forward on the module with attributes self: the attributes
   and heap it leaves, and out = what it returned or that it raised *)
ForwardCall(self, hp, weight, training) ==
    LET weight_mat == ReshapeWeightToMatrix(weight, self.dim)
        st0 == [self |-> self, heap |-> hp, floored |-> FALSE, err |-> FALSE,
                warned |-> FALSE]
    IN  IF IsErr(weight_mat)
            THEN [self |-> self, heap |-> hp,
                  out |-> [status |-> "error", warned |-> FALSE, floored |-> FALSE]]
        ELSE LET st1 == IF training THEN TrainingBranch(st0, weight_mat)
                                    ELSE EvalBranch(st0, weight_mat)
                 sigma == IF st1.err THEN Err("loop") ELSE Sigma(st1, weight_mat)
             IN  IF IsErr(sigma)
                     THEN [self |-> st1.self, heap |-> st1.heap,
                           out |-> [status |-> "error", warned |-> st1.warned,
                                    floored |-> st1.floored]]
                 ELSE [self |-> st1.self, heap |-> st1.heap,
                       out |-> [status |-> "ok", warned |-> st1.warned,
                                floored |-> st1.floored, sigma |-> sigma.val,
                                result |-> Divide(weight, sigma.val)]]

(* a right_inverse that clamps the entries of value to [-1, 1] *)
RightInverseClamped(self, value) ==
    [self |-> self,
     result |-> Tensor(value.shape,
                       [i \in 1..Len(value.data) |->
                           IF value.data[i] > 1 THEN 1
                           ELSE IF value.data[i] < -1 THEN -1
                           ELSE value.data[i]])]

(* SpectralNorm.right_inverse: the attributes it leaves and what it returns *)
RightInverseCall(self, value) ==
    [self |-> self, result |-> value]

(* a check that rejects negative counts only *)
IterationsRejectedIfNegative(n_power_iterations) == n_power_iterations < 0

(* if n_power_iterations <= 0: raise ValueError *)
IterationsRejected(n_power_iterations) == n_power_iterations <= 0

(* SpectralNorm.__init__(weight, n_power_iterations, dim, eps), with randn_u
   and randn_v the draws of normal_(0, 1) by length: the attributes set by
   the time it returns or raises, the tensors it registered, and how it ended *)
ConstructCall(weight, n_power_iterations, dim, eps, randn_u, randn_v) ==
    LET self0 == [dim |-> dim]
        self1 == [dim |-> dim, n_power_iterations |-> n_power_iterations,
                  eps |-> eps]
        weight_mat == ReshapeWeightToMatrix(weight, dim)
    IN  IF IterationsRejected(n_power_iterations)
            THEN [self |-> self0, heap |-> <<>>, status |-> "ValueError"]
        ELSE IF IsErr(weight_mat)
            THEN [self |-> self1, heap |-> <<>>, status |-> "reshape"]
        ELSE LET h == Height(weight_mat)
                 w == Width(weight_mat)
                 u == Normalize(randn_u[h], eps)
                 v == Normalize(randn_v[w], eps)
             IN  [self |-> [dim |-> dim,
                            n_power_iterations |-> n_power_iterations,
                            eps |-> eps, u |-> 1, v |-> 2,
                            buffers_initialized |-> FALSE],
                  heap |-> <<u, v>>,
                  status |-> "ok"]

-----------------------------------------------------------------------------
(* inputs *)

(* eps in fixed point: the least positive number, for the default 1e-12 *)
DefaultEps == 1

W22 == Tensor(<<2, 2>>, <<2, 0, 0, 1>>)
W22Neg == Tensor(<<2, 2>>, <<0, -1, -2, 0>>)
W22Zero == Tensor(<<2, 2>>, <<0, 0, 0, 0>>)
W23 == Tensor(<<2, 3>>, <<1, 0, 2, 0, 1, 1>>)
W32 == Tensor(<<3, 2>>, <<1, 0, 0, 1, 1, 1>>)
W212 == Tensor(<<2, 1, 2>>, <<1, 2, 0, 1>>)
W2 == Tensor(<<2>>, <<3, 4>>)
W0 == Tensor(<<>>, <<5>>)

Weights == {W22, W22Neg, W22Zero, W23, W32, W212, W2, W0}
CtorWeights == {W22, W212, W2, W0}
RightInverseValues == {W22, W22Zero, W0}
Iterations == {-1, 0, 1, 2}
Dims == {0, 1}

(* two draws of normal_(0, 1) for every length *)
RandnA == [k \in 1..4 |-> [i \in 1..k |-> Scale]]
RandnB == [k \in 1..4 |-> [i \in 1..k |-> IF i = 1 THEN -Scale ELSE 2 * Scale]]
Randn == {RandnA, RandnB}

-----------------------------------------------------------------------------
(* actions *)

Init ==
    /\ modules = [m \in ModuleNames |-> NoModule]
    /\ heap = <<>>
    /\ last = [op |-> "none"]
    /\ saved = <<>>
    /\ warnings = [m \in ModuleNames |-> 0]
    /\ calls = 0
    /\ replications = 0
    /\ trained = [m \in ModuleNames |-> "never"]

(* SpectralNorm(weight, n_power_iterations, dim, eps) *)
Construct ==
    /\ ~Exists(Canonical)
    /\ \E weight \in CtorWeights, n \in Iterations, d \in Dims, rn \in Randn :
          \E r \in {ConstructCall(weight, n, d, DefaultEps, rn, rn)} :
              /\ modules' = [modules EXCEPT ![Canonical] = r.self]
              /\ heap' = r.heap
              /\ last' = [op |-> "init", weight |-> weight, dim |-> d,
                          n_power_iterations |-> n, status |-> r.status]
    /\ UNCHANGED <<saved, warnings, calls, replications, trained>>

(* module m computes forward(weight) with self.training = training *)
Forward(m, weight, training) ==
    /\ Constructed(m)
    /\ calls < MaxCalls
    /\ \E r \in {ForwardCall(modules[m], heap, weight, training)} :
           /\ modules' = [modules EXCEPT ![m] = r.self]
           /\ heap' = r.heap
           /\ last' = [op |-> "forward", m |-> m, weight |-> weight,
                       training |-> training, out |-> r.out]
           /\ saved' = IF training /\ r.out.status = "ok"
                       THEN Append(saved, [m |-> m, u |-> r.self.u, v |-> r.self.v,
                                           uval |-> r.heap[r.self.u],
                                           vval |-> r.heap[r.self.v],
                                           weight |-> weight,
                                           sigma |-> r.out.sigma])
                       ELSE saved
           /\ warnings' = IF r.out.warned
                          THEN [warnings EXCEPT ![m] = @ + 1] ELSE warnings
    /\ trained' = IF ~training \/ trained[m] = "accepted" THEN trained
                  ELSE [trained EXCEPT ![m] =
                           IF IsErr(ReshapeWeightToMatrix(weight, modules[m].dim))
                           THEN "rejected" ELSE "accepted"]
    /\ calls' = calls + 1
    /\ UNCHANGED replications

(* module m computes right_inverse(value) *)
RightInverse(m, value) ==
    /\ Constructed(m)
    /\ \E r \in {RightInverseCall(modules[m], value)} :
           /\ modules' = [modules EXCEPT ![m] = r.self]
           /\ last' = [op |-> "right_inverse", m |-> m, value |-> value,
                       result |-> r.result]
    /\ UNCHANGED <<heap, saved, warnings, calls, replications, trained>>

(* data-parallel replication of the canonical module: replica0 runs on the
   canonical module's device and its buffers are the canonical module's
   tensors; replica1 runs on another device and its buffers are copies.  A
   replica starts with the canonical module's other attributes. *)
Replicate ==
    /\ Constructed(Canonical)
    /\ replications < MaxReplications
    /\ LET c == modules[Canonical]
           k == Len(heap)
       IN  /\ modules' = [modules EXCEPT
                  !["replica0"] = c,
                  !["replica1"] = [c EXCEPT !.u = k + 1, !.v = k + 2]]
           /\ heap' = heap \o <<heap[c.u], heap[c.v]>>
    /\ warnings' = [m \in ModuleNames |->
                        IF m \in Replicas THEN 0 ELSE warnings[m]]
    /\ trained' = [m \in ModuleNames |-> trained[Canonical]]
    /\ last' = [op |-> "replicate"]
    /\ replications' = replications + 1
    /\ UNCHANGED <<saved, calls>>

Next ==
    \/ Construct
    \/ \E weight \in Weights, training \in BOOLEAN :
          Forward(Canonical, weight, training)
    \/ \E value \in RightInverseValues : RightInverse(Canonical, value)

Spec == Init /\ [][Next]_vars

-----------------------------------------------------------------------------
(* data-parallel runs: a constructed canonical module is replicated, and the
   canonical module and its replicas compute forward in any order *)

ReplicaWeights == {W22, W23}

InitReplicas ==
    /\ \E n \in {1, 2}, ru \in Randn :
          \E r \in {ConstructCall(W22, n, 0, DefaultEps, ru, RandnA)} :
              /\ modules = [m \in ModuleNames |->
                               IF m = Canonical THEN r.self ELSE NoModule]
              /\ heap = r.heap
    /\ last = [op |-> "init", weight |-> W22, dim |-> 0,
               n_power_iterations |-> modules[Canonical].n_power_iterations,
               status |-> "ok"]
    /\ saved = <<>>
    /\ warnings = [m \in ModuleNames |-> 0]
    /\ calls = 0
    /\ replications = 0
    /\ trained = [m \in ModuleNames |-> "never"]

NextReplicas ==
    \/ Replicate
    \/ \E m \in ModuleNames, weight \in ReplicaWeights, training \in BOOLEAN :
          calls < MaxReplicaCalls /\ Forward(m, weight, training)

SpecReplicas == InitReplicas /\ [][NextReplicas]_vars

-----------------------------------------------------------------------------
(* the reshaper alone: a module with some dim is handed tensors of every
   shape of rank 0..3 with extents 1..MaxExtent, with distinct entries *)

Shapes ==
    UNION {[1..r -> 1..MaxExtent] : r \in 0..3}

Iota(shape) == Tensor(shape, [k \in 1..ProdSeq(shape) |-> k])

ReshapeInputs == {Iota(shape) : shape \in Shapes}

W222 == Tensor(<<2, 2, 2>>, <<1, 0, 0, 1, 2, 0, 0, 2>>)

InitReshape ==
    /\ \E d \in 0..2 :
          \E r \in {ConstructCall(W222, 1, d, DefaultEps, RandnA, RandnB)} :
              /\ modules = [m \in ModuleNames |->
                               IF m = Canonical THEN r.self ELSE NoModule]
              /\ heap = r.heap
    /\ last = [op |-> "init", weight |-> W222, dim |-> modules[Canonical].dim,
               n_power_iterations |-> 1, status |-> "ok"]
    /\ saved = <<>>
    /\ warnings = [m \in ModuleNames |-> 0]
    /\ calls = 0
    /\ replications = 0
    /\ trained = [m \in ModuleNames |-> "never"]

(* module m computes _reshape_weight_to_matrix(weight) *)
Reshape(m, weight) ==
    /\ Constructed(m)
    /\ last' = [op |-> "reshape", m |-> m, weight |-> weight,
                result |-> ReshapeWeightToMatrix(weight, modules[m].dim)]
    /\ UNCHANGED <<modules, heap, saved, warnings, calls, replications,
                   trained>>

NextReshape ==
    \E weight \in ReshapeInputs : Reshape(Canonical, weight)

SpecReshape == InitReshape /\ [][NextReshape]_vars

-----------------------------------------------------------------------------
(* properties *)

(* a step that is a forward call *)
ForwardStep == calls' = calls + 1 /\ last'.op = "forward"

BufferU(m) == heap[modules[m].u]
BufferV(m) == heap[modules[m].v]

(* C1: the u and v from which a training-mode forward computed its sigma are
   never written by a later call: every tensor recorded in `saved` still
   holds the values it held when its sigma was computed. *)
C1_SavedVectorsNeverWritten ==
    \A i \in 1..Len(saved) :
        /\ heap[saved[i].u] = saved[i].uval
        /\ heap[saved[i].v] = saved[i].vval

(* n refinement steps on the values u, v, each v <- normalize(W^T u) then
   u <- normalize(W v) *)
RECURSIVE Refined(_, _, _, _, _)
Refined(weight_mat, u, v, eps, n) ==
    IF n = 0 THEN [u |-> u, v |-> v]
    ELSE LET v1 == Normalize(MvT(weight_mat, u).val, eps)
             u1 == Normalize(Mv(weight_mat, v1).val, eps)
         IN  Refined(weight_mat, u1, v1, eps, n - 1)

(* C2: when a replica whose u and v are the canonical module's tensors
   computes a training-mode forward that returns, the canonical module's u
   and v afterwards hold n_power_iterations refinement steps of their values
   before the call; and a replication hands every replica the canonical
   module's current values. *)
C2_ReplicaRefinementReachesCanonical ==
    [][/\ \A m \in Replicas :
             (/\ ForwardStep
              /\ last'.m = m
              /\ last'.training
              /\ last'.out.status = "ok"
              /\ modules[m].u = modules[Canonical].u
              /\ modules[m].v = modules[Canonical].v)
             => LET c   == modules[Canonical]
                    ref == Refined(ReshapeWeightToMatrix(last'.weight, c.dim),
                                   BufferU(Canonical), BufferV(Canonical),
                                   c.eps, c.n_power_iterations)
                IN  /\ modules'[Canonical] = c
                    /\ heap'[c.u] = ref.u
                    /\ heap'[c.v] = ref.v
       /\ replications' = replications + 1
             => \A m \in Replicas :
                    /\ heap'[modules'[m].u] = BufferU(Canonical)
                    /\ heap'[modules'[m].v] = BufferV(Canonical)
      ]_vars

(* C2 witness: replica0 refined the canonical module's tensors while
   replica1 refined its copies, and the next replication handed out the
   refined values, which are not a draw of the constructor *)
C2_Witness ==
    /\ last.op = "replicate"
    /\ replications = 2
    /\ \E i, j \in 1..Len(saved) :
          /\ saved[i].m = "replica0"
          /\ saved[j].m = "replica1"
          /\ heap[modules["replica1"].u] = saved[i].uval
          /\ heap[modules["replica1"].v] = saved[i].vval
    /\ \A r \in Randn :
          heap[modules["replica1"].u] # Normalize(r[2], DefaultEps)

(* C3: an evaluation-mode forward call, whatever its weight and whether it
   returns or raises, changes no tensor and leaves u and v referring to the
   same tensors. *)
C3_EvalNeverMutates ==
    [][(ForwardStep /\ ~last'.training)
          => /\ heap' = heap
             /\ modules'[last'.m].u = modules[last'.m].u
             /\ modules'[last'.m].v = modules[last'.m].v]_vars

(* C3 witness: an evaluation-mode call after a training-mode call *)
C3_Witness ==
    /\ last.op = "forward"
    /\ ~last.training
    /\ last.out.status = "ok"
    /\ calls >= 2
    /\ modules[Canonical].buffers_initialized

(* C4: an instance emits the uninitialized warning at most once. *)
C4_WarnsOncePerInstance ==
    \A m \in ModuleNames : warnings[m] <= 1

(* C5: a forward call, in either mode, with a weight whose matrix shape is
   not (len(u), len(v)) raises. *)
C5_ShapeMismatchRaises ==
    [][ForwardStep =>
          LET m          == last'.m
              weight_mat == ReshapeWeightToMatrix(last'.weight, modules[m].dim)
          IN  (/\ ~IsErr(weight_mat)
               /\ \/ Height(weight_mat) # Len(BufferU(m))
                  \/ Width(weight_mat) # Len(BufferV(m)))
              => last'.out.status = "error"]_vars

(* C5 failing input: a training-mode call on a 2x2 estimator with a 2x3
   weight returns a normalized weight *)
C5_FailingInput ==
    /\ last.op = "forward"
    /\ last.weight = W23
    /\ last.training
    /\ last.out.status = "ok"

(* C6: the constructor raises the configuration error exactly when
   n_power_iterations <= 0, and then the object has no u, no v and no
   buffers_initialized and no tensor was created. *)
C6_ConstructorRejectsNonPositiveIterations ==
    last.op = "init" =>
        /\ (last.status = "ValueError") <=> (last.n_power_iterations <= 0)
        /\ last.status = "ValueError" =>
              /\ heap = <<>>
              /\ DOMAIN modules[Canonical]
                    \cap {"u", "v", "buffers_initialized"} = {}

(* C6 witness: the constructor was given 0 iterations and raised *)
C6_Witness ==
    /\ last.op = "init"
    /\ last.n_power_iterations = 0
    /\ last.status = "ValueError"
    /\ ~Constructed(Canonical)

(* C7 as stated: the flag starts false, every training-mode forward call
   leaves it true, only a training-mode forward call turns it true, and it
   never turns false. *)
C7_InitializedByFirstTrainingCall ==
    [][/\ (last'.op = "init" /\ Constructed(Canonical)')
              => ~modules'[Canonical].buffers_initialized
       /\ Constructed(Canonical)
              => LET before == modules[Canonical].buffers_initialized
                     after  == modules'[Canonical].buffers_initialized
                 IN  /\ before => after
                     /\ (ForwardStep /\ last'.training) => after
                     /\ (~before /\ after) => (ForwardStep /\ last'.training)
      ]_vars

(* C7 amended: the flag starts false; a step leaves it true exactly when it
   was true or the step is a training-mode forward call whose weight the
   reshaper accepts (whether or not the call then raises). *)
C7_InitializedByFirstReshapedTrainingCall ==
    [][/\ (last'.op = "init" /\ Constructed(Canonical)')
              => ~modules'[Canonical].buffers_initialized
       /\ Constructed(Canonical)
              => (modules'[Canonical].buffers_initialized
                    <=> \/ modules[Canonical].buffers_initialized
                        \/ /\ ForwardStep
                           /\ last'.training
                           /\ ~IsErr(ReshapeWeightToMatrix(
                                         last'.weight, modules[Canonical].dim)))
      ]_vars

(* C7 witness: initialized by an earlier training-mode call, the module has
   since computed an evaluation-mode forward and a right_inverse *)
C7_Witness ==
    /\ last.op = "right_inverse"
    /\ calls >= 2
    /\ modules[Canonical].buffers_initialized
    /\ warnings[Canonical] = 1
    /\ Len(saved) = 1

(* C8 as stated: in a forward call that returns, in either mode, sigma is
   positive unless a normalization of the call divided by eps. *)
C8_SigmaPositiveUnlessFloored ==
    (last.op = "forward" /\ last.out.status = "ok" /\ ~last.out.floored)
        => last.out.sigma > 0

(* C8 amended: in a training-mode forward call that returns, sigma is
   positive unless a normalization of the call divided by eps. *)
C8_TrainingSigmaPositiveUnlessFloored ==
    (/\ last.op = "forward"
     /\ last.training
     /\ last.out.status = "ok"
     /\ ~last.out.floored)
        => last.out.sigma > 0

(* C8 witness: a training-mode call with a weight of negative entries, no
   norm floored *)
C8_Witness ==
    /\ last.op = "forward"
    /\ last.training
    /\ last.weight = W22Neg
    /\ last.out.status = "ok"
    /\ ~last.out.floored
    /\ last.out.sigma > 0

(* s with x inserted as its element k + 1 *)
InsertAt(s, k, x) == SubSeq(s, 1, k) \o <<x>> \o SubSeq(s, k + 1, Len(s))

(* C9: for a weight of rank >= 1 and 0 <= dim < rank the reshaper returns a
   matrix of shape (extent along dim, product of the other extents) whose
   entry (i, j) is the weight's element with index i along dim and the other
   indices the row-major unravelling of j; un-flattening it and permuting
   the axes back gives the weight. *)
C9_ReshaperLayoutAndRoundTrip ==
    (last.op = "reshape" /\ modules[last.m].dim < Rank(last.weight)) =>
        LET weight   == last.weight
            dim      == modules[last.m].dim
            mat      == last.result
            others   == OtherDims(0, Rank(weight), dim)
            remShape == [k \in 1..Len(others) |-> weight.shape[others[k] + 1]]
            perm     == <<dim>> \o others
            back     == [a \in 1..Rank(weight) |->
                            (CHOOSE k \in 1..Rank(weight) : perm[k] = a - 1) - 1]
        IN  /\ ~IsErr(mat)
            /\ mat.shape = <<weight.shape[dim + 1], ProdSeq(remShape)>>
            /\ \A i \in 0..(Height(mat) - 1), j \in 0..(Width(mat) - 1) :
                  At(mat, i + 1, j + 1) =
                      weight.data[Ravel(InsertAt(Unravel(j, remShape), dim, i),
                                        weight.shape) + 1]
            /\ Permute(Tensor(<<Height(mat)>> \o remShape, mat.data), back)
                  = weight

(* C9 witness: a rank-3 weight reshaped along its last axis *)
C9_Witness ==
    /\ last.op = "reshape"
    /\ last.weight.shape = <<2, 3, 2>>
    /\ modules[last.m].dim = 2
    /\ last.result.shape = <<2, 6>>

(* C10: right_inverse returns its argument and changes neither the module's
   attributes nor any tensor. *)
C10_RightInverseIsIdentity ==
    [][last'.op = "right_inverse"
          => /\ last'.result = last'.value
             /\ modules' = modules
             /\ heap' = heap]_vars

(* C10 witness: right_inverse of a value of spectral norm 2 *)
C10_Witness ==
    /\ last.op = "right_inverse"
    /\ last.value = W22
    /\ last.result = W22

(* C11: a training-mode forward that returns leaves in the module's u and v
   exactly n_power_iterations refinement iterations of the values they held
   before the call, each iteration computing v from the current u and then u
   from the v just computed. *)
C11_TrainingRunsNIterationsVThenU ==
    [][(ForwardStep /\ last'.training /\ last'.out.status = "ok")
          => \A m \in {last'.m} :
             \A r \in {Refined(ReshapeWeightToMatrix(last'.weight, modules[m].dim),
                               BufferU(m), BufferV(m), modules[m].eps,
                               modules[m].n_power_iterations)} :
                 /\ heap'[modules'[m].u] = r.u
                 /\ heap'[modules'[m].v] = r.v]_vars

(* C11 witness: a second training-mode forward of a module with
   n_power_iterations = 2 has returned, and two iterations left other values
   in u than one iteration would have *)
C11_Witness ==
    /\ last.op = "forward" /\ last.training /\ last.out.status = "ok"
    /\ modules[last.m].n_power_iterations = 2
    /\ Len(saved) >= 2
    /\ LET k   == Len(saved)
           wm  == ReshapeWeightToMatrix(last.weight, modules[last.m].dim)
           eps == modules[last.m].eps
       IN  /\ BufferU(last.m)
                 = Refined(wm, saved[k - 1].uval, saved[k - 1].vval, eps, 2).u
           /\ BufferU(last.m)
                 # Refined(wm, saved[k - 1].uval, saved[k - 1].vval, eps, 1).u

(* C12: a forward that returns returns weight / sigma with
   sigma = dot(u, W v), W the reshaped weight and u, v the module's vectors as
   they stand after the call: the refined ones in training mode, the stored
   ones, unchanged, in evaluation mode; and an evaluation-mode forward that
   directly follows a returned evaluation-mode forward of the same module
   with the same weight returns the same value. *)
C12_ReturnsWeightOverSigma ==
    [][ForwardStep
          => \A m \in {last'.m} :
             /\ last'.out.status = "ok"
                  => \A sigma \in
                        {Dot(heap'[modules'[m].u],
                             Mv(ReshapeWeightToMatrix(last'.weight, modules[m].dim),
                                heap'[modules'[m].v]).val).val} :
                        /\ last'.out.sigma = sigma
                        /\ last'.out.result.shape = last'.weight.shape
                        /\ \A i \in 1..Len(last'.weight.data) :
                              last'.out.result.data[i]
                                  = FloatDiv(last'.weight.data[i] * Scale, sigma)
                        /\ ~last'.training
                              => /\ heap'[modules'[m].u] = BufferU(m)
                                 /\ heap'[modules'[m].v] = BufferV(m)
             /\ (/\ ~last'.training
                 /\ last.op = "forward" /\ ~last.training
                 /\ last.m = m /\ last.weight = last'.weight
                 /\ last.out.status = "ok")
                  => /\ last'.out.status = "ok"
                     /\ last'.out.result = last.out.result]_vars

(* C12 witness: the third forward of a module that one training-mode forward
   has refined is an evaluation-mode forward that returns weight / sigma, with
   a positive sigma computed from the stored vectors *)
C12_Witness ==
    /\ calls = 3
    /\ Len(saved) = 1
    /\ last.op = "forward" /\ ~last.training /\ last.out.status = "ok"
    /\ last.weight = W23
    /\ last.out.sigma > 0
    /\ last.out.sigma
          = Dot(BufferU(last.m),
                Mv(ReshapeWeightToMatrix(W23, modules[last.m].dim),
                   BufferV(last.m)).val).val
    /\ last.out.result # last.weight

(* C13 as stated: a forward emits the warning exactly when it runs in
   evaluation mode on a module on which no training-mode forward has ever
   run. *)
C13_WarnsIffEvalNeverTrained ==
    last.op = "forward"
        => (last.out.warned <=> (~last.training /\ trained[last.m] = "never"))

(* C13: a forward emits the warning exactly when it runs in evaluation mode,
   the reshaper accepts its weight, and no training-mode forward whose weight
   the reshaper accepted has run on the module; so no training-mode forward
   emits it and no evaluation-mode forward after such a training-mode forward
   emits it. *)
C13_WarnsIffEvalReshapedNeverRefined ==
    last.op = "forward"
        => (last.out.warned
               <=> /\ ~last.training
                   /\ ~IsErr(ReshapeWeightToMatrix(last.weight,
                                                   modules[last.m].dim))
                   /\ trained[last.m] # "accepted")

(* C13 witness: an evaluation-mode forward warns on a module whose only
   training-mode forwards raised in the reshaper *)
C13_Witness ==
    /\ last.op = "forward" /\ ~last.training
    /\ last.out.warned
    /\ trained[last.m] = "rejected"

(* C14: construction leaves u as long as the weight's extent along dim and v
   as long as the product of the weight's other extents, and no later call,
   returning or raising, in either mode, changes the length of u or of v. *)
C14_BufferLengthsFixed ==
    [][/\ (last'.op = "init" /\ last'.status = "ok")
            => /\ Len(heap'[modules'[Canonical].u])
                     = last'.weight.shape[last'.dim + 1]
               /\ Len(heap'[modules'[Canonical].v])
                     = Len(last'.weight.data)
                           \div last'.weight.shape[last'.dim + 1]
       /\ Constructed(Canonical)
            => /\ Len(heap'[modules'[Canonical].u]) = Len(BufferU(Canonical))
               /\ Len(heap'[modules'[Canonical].v]) = Len(BufferV(Canonical))]_vars

(* C15 as stated: constructing the module on a weight of rank 0 or rank 1,
   with dim = 0 and a positive n_power_iterations, succeeds. *)
C15_LowRankHandled ==
    (/\ last.op = "init"
     /\ last.n_power_iterations >= 1
     /\ last.dim = 0
     /\ Rank(last.weight) <= 1)
        => last.status = "ok"

(* C15: a rank-1 weight of N entries with dim = 0 is handled as an N x 1
   matrix: construction succeeds with u of length N and v of length 1, and a
   forward with such a weight on a module whose u has length N and whose v
   has length 1 returns; a rank-0 weight is rejected by the reshaper, in the
   constructor and in forward. *)
C15_RankOneHandledRankZeroRejected ==
    /\ (/\ last.op = "init"
        /\ last.n_power_iterations >= 1
        /\ last.dim = 0
        /\ Rank(last.weight) = 1)
           => /\ last.status = "ok"
              /\ ReshapeWeightToMatrix(last.weight, 0).shape
                    = <<last.weight.shape[1], 1>>
              /\ Len(BufferU(Canonical)) = last.weight.shape[1]
              /\ Len(BufferV(Canonical)) = 1
    /\ (/\ last.op = "init"
        /\ last.n_power_iterations >= 1
        /\ Rank(last.weight) = 0)
           => last.status = "reshape"
    /\ (/\ last.op = "forward"
        /\ Rank(last.weight) = 1
        /\ modules[last.m].dim = 0
        /\ Len(BufferU(last.m)) = last.weight.shape[1]
        /\ Len(BufferV(last.m)) = 1)
           => last.out.status = "ok"
    /\ (last.op = "forward" /\ Rank(last.weight) = 0)
           => last.out.status = "error"

(* C15 witness: an evaluation-mode forward with the rank-1 weight returns on
   the module constructed on it *)
C15_Witness ==
    /\ last.op = "forward" /\ ~last.training
    /\ last.weight = W2
    /\ last.out.status = "ok"
    /\ saved = <<>>
    /\ Len(BufferU(last.m)) = 2
    /\ Len(BufferV(last.m)) = 1

(* C16: a forward that raises leaves the module as it was before the call:
   buffers_initialized, and the values of u and v, are unchanged. *)
C16_FailedCallChangesNothing ==
    [][(ForwardStep /\ last'.out.status = "error")
          => \A m \in {last'.m} :
                /\ modules'[m].buffers_initialized
                      = modules[m].buffers_initialized
                /\ heap'[modules'[m].u] = BufferU(m)
                /\ heap'[modules'[m].v] = BufferV(m)]_vars

(* C17: whenever a forward of a module emits the warning, the module's u and
   v hold values the constructor drew: no training-mode forward, of the
   module or of a replica that shares its tensors, has refined them.  In the
   data-parallel runs the constructor draws u from Randn and v from RandnA,
   both of length 2. *)
C17_WarningMeansConstructionValues ==
    (last.op = "forward" /\ last.out.warned)
        => /\ \E ru \in Randn : BufferU(last.m) = Normalize(ru[2], DefaultEps)
           /\ BufferV(last.m) = Normalize(RandnA[2], DefaultEps)

(* one training-mode forward with weight, on a module like m but with
   n_power_iterations = n, whose u and v hold the values of saved[i] *)
OneCallFrom(m, i, weight, n) ==
    ForwardCall([modules[m] EXCEPT !.n_power_iterations = n, !.u = 1, !.v = 2],
                <<saved[i].uval, saved[i].vval>>, weight, TRUE)

(* C18: when the training-mode forwards i + 1, ..., j that returned all had
   the same weight, the u, v and sigma of forward j are those one
   training-mode forward with that weight and (j - i) * n_power_iterations
   iterations produces from the u and v forward i left. *)
C18_RefinementAccumulates ==
    \A i, j \in 1..Len(saved) :
        (/\ i < j
         /\ \A k \in (i + 1)..j : saved[k].weight = saved[j].weight)
            => \A r \in {OneCallFrom(saved[j].m, i, saved[j].weight,
                                     (j - i) * modules[saved[j].m].n_power_iterations)} :
                  /\ r.out.status = "ok"
                  /\ r.heap[r.self.u] = saved[j].uval
                  /\ r.heap[r.self.v] = saved[j].vval
                  /\ r.out.sigma = saved[j].sigma

(* C18 witness: three training-mode forwards returned, the last two with the
   same weight, and each of the two changed u *)
C18_Witness ==
    /\ Len(saved) = 3
    /\ saved[2].weight = saved[3].weight
    /\ saved[1].uval # saved[2].uval
    /\ saved[2].uval # saved[3].uval
    /\ saved[1].uval # saved[3].uval

====
